---- MODULE Spec2Model ----
(***************************************************************************)
(* State machine of TableDropper (table_dropper.py): the widget state the  *)
(* handlers read and write, the handlers on_load_click,                    *)
(* on_select_all_change and on_drop_click, and the operator's edits of the *)
(* input widgets.                                                          *)
(*                                                                         *)
(* Text.  A Python str is a sequence of pieces whose concatenation is the  *)
(* str.  Text typed by the operator is one character per piece, so that    *)
(* strip, split and replace work on characters; a fixed fragment of an     *)
(* f-string of the source, and the text of an exception of the executor,   *)
(* is one piece.                                                           *)
(* The output widget is the sequence of the lines printed into it.         *)
(***************************************************************************)
EXTENDS Integers, Sequences, FiniteSets

\* Largest number of rows the executor returns for one inventory query.
MaxRows == 2

VARIABLES
    tables,                 \* self.tables: list of {"name", "created"}
    checkboxes,             \* self.checkboxes: list of Checkbox widgets {value, description}
    select_all_cb,          \* self.select_all_cb as on_load_click creates it; absent before
    catalog_schema_input,   \* self.catalog_schema_input.value
    dry_run_checkbox,       \* self.dry_run_checkbox.value
    drop_btn_disabled,      \* self.drop_btn.disabled
    table_list_box,         \* self.table_list_box.children, by description
    output,                 \* self.output: the lines printed since the last clear_output()
    sql_calls,              \* executor calls of the most recent operator action: statement and outcome
    last_op,                \* the handler the most recent operator action ran; "edit": none
    dry_run_edited          \* whether the operator ever set the dry-run checkbox

vars == <<tables, checkboxes, select_all_cb, catalog_schema_input, dry_run_checkbox,
          drop_btn_disabled, table_list_box, output, sql_calls, last_op, dry_run_edited>>

----------------------------------------------------------------------------
(* Text helpers *)

\* The characters str.strip() removes (the whitespace of the input alphabet).
Whitespace == {" "}

RECURSIVE LStrip(_)
LStrip(s) == IF s # <<>> /\ Head(s) \in Whitespace THEN LStrip(Tail(s)) ELSE s

RECURSIVE RStrip(_)
RStrip(s) ==
    IF s # <<>> /\ s[Len(s)] \in Whitespace THEN RStrip(SubSeq(s, 1, Len(s) - 1)) ELSE s

\* str.strip()
Strip(s) == RStrip(LStrip(s))

\* str.split(sep): the list of the segments between the occurrences of sep,
\* empty segments kept; the empty string gives one empty segment.
RECURSIVE SplitFrom(_, _, _)
SplitFrom(s, sep, cur) ==
    IF s = <<>> THEN <<cur>>
    ELSE IF Head(s) = sep THEN <<cur>> \o SplitFrom(Tail(s), sep, <<>>)
    ELSE SplitFrom(Tail(s), sep, Append(cur, Head(s)))

Split(s, sep) == SplitFrom(s, sep, <<>>)

\* str.replace(old, new) for a one-character old.
RECURSIVE Replace(_, _, _)
Replace(s, old, new) ==
    IF s = <<>> THEN <<>>
    ELSE (IF Head(s) = old THEN new ELSE <<Head(s)>>) \o Replace(Tail(s), old, new)

Digits == <<"0", "1", "2", "3", "4", "5", "6", "7", "8", "9">>

\* str(n) of a natural number, as an f-string formats it.
RECURSIVE IntToStr(_)
IntToStr(n) ==
    IF n < 10 THEN <<Digits[n + 1]>> ELSE IntToStr(n \div 10) \o <<Digits[(n % 10) + 1]>>

----------------------------------------------------------------------------
(* The executor (spark.sql) and the operator's inputs *)

\* Rows of information_schema.tables the executor may hand back: tables t1, t2, ...
\* the k-th created on the k-th day.
Row(k) == [table_name |-> <<"t", Digits[k + 1]>>, created |-> <<"2023-01-0", Digits[k + 1]>>]
Rows == { Row(k) : k \in 1..MaxRows }

\* Results of df.collect(): up to `most` rows in any order, a table name at most once.
RECURSIVE RowListsOfLen(_)
RowListsOfLen(n) ==
    IF n = 0 THEN { <<>> }
    ELSE { Append(r, row) : <<r, row>> \in
             { p \in RowListsOfLen(n - 1) \X Rows :
                 \A i \in DOMAIN p[1] : p[1][i].table_name # p[2].table_name } }

RowLists(most) == UNION { RowListsOfLen(n) : n \in 0..most }

\* Texts of the exceptions the executor raises.
ErrorDetails == { <<"boom">> }

\* What one call of spark.sql(...) does: raise, or return a frame of rows.
Raises(detail) == [raises |-> TRUE, detail |-> detail, rows |-> <<>>]
Returns(rows) == [raises |-> FALSE, detail |-> <<>>, rows |-> rows]
SqlOutcomes(most) ==
    { Raises(d) : d \in ErrorDetails } \cup { Returns(r) : r \in RowLists(most) }
\* The answers to the inventory query: rows up to the bound, and a single row at most.
\* Both are named constants, so that TLC evaluates each once, before the search starts.
LoadOutcomes == SqlOutcomes(MaxRows)
NamespaceLoadOutcomes == SqlOutcomes(1)
\* A DROP returns no rows that the handler reads.
DropOutcomes == { Raises(d) : d \in ErrorDetails } \cup { Returns(<<>>) }

\* Values the operator types into the Catalog.Schema text box: none, and two
\* namespaces (the first with a leading blank).
InputValues ==
    { <<>>,
      <<" ", "c", ".", "s">>,
      <<"d", ".", "s">> }

\* The same, and values that are not of the form catalog.schema, or hold a quote,
\* alone and after a backslash.
NamespaceInputValues ==
    InputValues \cup
    { <<"c">>,
      <<"c", ".">>,
      <<"c", ".", "s", ".", "x">>,
      <<"c", ".", "s", "'">>,
      <<"c", ".", "s", "\\", "'">> }

\* A Checkbox widget.
Checkbox(value, description) == [value |-> value, description |-> description]

NoWidget == [absent |-> TRUE]

\* Variant of DryRunDefault: the dry-run checkbox created unchecked.
DryRunDefault_Off == FALSE

\* Line 33: the dry-run checkbox is created checked.
DryRunDefault == TRUE

----------------------------------------------------------------------------
(* get_tables *)

\* One entry of the record of executor calls: the statement and what the executor
\* did with it (the exception raised, or the rows handed back).
Call(statement, outcome) ==
    [statement |-> statement, raises |-> outcome.raises, detail |-> outcome.detail,
     rows |-> outcome.rows]

\* Line 62.
ExpectedFormatLine(catalog_schema) ==
    <<"Error: Expected ", "'", "catalog.schema", "'", ", got ", "'">> \o catalog_schema \o <<"'">>

\* Line 83.
ErrorListingLine(detail) == <<"Error listing tables: ">> \o detail

\* Line 68: schema.replace("'", "\\'").
EscapeSchema(schema) == Replace(schema, "'", <<"\\", "'">>)

\* Lines 71-76: the inventory query.
InventoryQuery(catalog, schema) ==
    <<"\n                SELECT table_name, created\n                FROM ">>
    \o catalog
    \o <<".information_schema.tables", "\n                WHERE table_schema = ", "'">>
    \o EscapeSchema(schema)
    \o <<"'", "\n                ORDER BY created ASC", "\n            ">>

\* Variant of RowsToTables: the records in the reverse of the order of the rows.
RECURSIVE RowsToTables_Reversed(_)
RowsToTables_Reversed(rows) ==
    IF rows = <<>> THEN <<>>
    ELSE RowsToTables_Reversed(Tail(rows))
         \o <<[name |-> Head(rows).table_name, created |-> Head(rows).created]>>

\* Lines 78-80: one record per row, in the order of df.collect().
RECURSIVE RowsToTables(_)
RowsToTables(rows) ==
    IF rows = <<>> THEN <<>>
    ELSE <<[name |-> Head(rows).table_name, created |-> Head(rows).created]>>
         \o RowsToTables(Tail(rows))

\* Line 60: the only check of the format of catalog_schema.
FormatAccepted(parts) == Len(parts) = 2

\* get_tables(catalog_schema), when the executor answers its query with `outcome`:
\* the list returned, the lines printed and the executor calls made.
GetTables(catalog_schema, outcome) ==
    LET parts == Split(catalog_schema, ".")
    IN  IF ~FormatAccepted(parts)
        THEN [ret |-> <<>>, printed |-> <<ExpectedFormatLine(catalog_schema)>>, calls |-> <<>>]
        ELSE LET query == InventoryQuery(parts[1], parts[2])
             IN  IF outcome.raises
                 THEN [ret |-> <<>>,
                       printed |-> <<ErrorListingLine(outcome.detail)>>,
                       calls |-> <<Call(query, outcome)>>]
                 ELSE [ret |-> RowsToTables(outcome.rows),
                       printed |-> <<>>,
                       calls |-> <<Call(query, outcome)>>]

----------------------------------------------------------------------------
(* on_load_click *)

\* Line 110: the description of a table's checkbox.
Description(t) == t.name \o <<" (">> \o t.created \o <<")">>

\* Variant of NewCheckboxes: the checkboxes in the reverse of the order of the tables.
RECURSIVE NewCheckboxes_Reversed(_)
NewCheckboxes_Reversed(tbls) ==
    IF tbls = <<>> THEN <<>>
    ELSE NewCheckboxes_Reversed(Tail(tbls)) \o <<Checkbox(FALSE, Description(Head(tbls)))>>

\* Lines 108-113: one unchecked checkbox per table, in the order of the tables.
RECURSIVE NewCheckboxes(_)
NewCheckboxes(tbls) ==
    IF tbls = <<>> THEN <<>>
    ELSE <<Checkbox(FALSE, Description(Head(tbls)))>> \o NewCheckboxes(Tail(tbls))

\* Lines 116-121.
NewSelectAll == Checkbox(FALSE, <<"Select All">>)

\* Line 124: the Select All checkbox, then the table checkboxes.
RECURSIVE Descriptions(_)
Descriptions(cbs) ==
    IF cbs = <<>> THEN <<>> ELSE <<Head(cbs).description>> \o Descriptions(Tail(cbs))

ListBoxChildren(cbs) == <<NewSelectAll.description>> \o Descriptions(cbs)

PleaseEnterLine == <<"Please enter a valid catalog.schema">>
LoadingLine(catalog_schema) == <<"Loading tables from ">> \o catalog_schema \o <<"...">>
NoTablesLine == <<"No tables found or error occurred.">>
FoundLine(n) == <<"Found ">> \o IntToStr(n) \o <<" tables.">>

\* Variant of DisabledFromStart: line 89 left out, the button keeps its state.
DisabledFromStart_Kept(before) == before

\* Line 89: the handler starts by disabling the drop button, whatever it was
\* before; the button stays so on the early returns of lines 95 and 106.
DisabledFromStart(before) == TRUE

\* on_load_click, the executor answering the inventory query with one of `outcomes`.
OnLoadClick(outcomes) ==
    LET catalog_schema == Strip(catalog_schema_input)
    IN  /\ last_op' = "load"
        /\ UNCHANGED <<catalog_schema_input, dry_run_checkbox, dry_run_edited>>
        /\ IF catalog_schema = <<>>
           THEN /\ output' = <<PleaseEnterLine>>
                /\ table_list_box' = <<>>
                /\ drop_btn_disabled' = DisabledFromStart(drop_btn_disabled)
                /\ sql_calls' = <<>>
                /\ UNCHANGED <<tables, checkboxes, select_all_cb>>
           ELSE \E outcome \in outcomes :
                  LET got == GetTables(catalog_schema, outcome)
                  IN  /\ tables' = got.ret
                      /\ sql_calls' = got.calls
                      /\ IF got.ret = <<>>
                         THEN /\ output' = <<LoadingLine(catalog_schema)>> \o got.printed
                                              \o <<NoTablesLine>>
                              /\ table_list_box' = <<>>
                              /\ drop_btn_disabled' = DisabledFromStart(drop_btn_disabled)
                              /\ UNCHANGED <<checkboxes, select_all_cb>>
                         ELSE /\ checkboxes' = NewCheckboxes(got.ret)
                              /\ select_all_cb' = NewSelectAll
                              /\ table_list_box' = ListBoxChildren(NewCheckboxes(got.ret))
                              /\ drop_btn_disabled' = FALSE
                              /\ output' = <<LoadingLine(catalog_schema)>> \o got.printed
                                              \o <<FoundLine(Len(got.ret))>>

----------------------------------------------------------------------------
(* on_select_all_change and the operator's edits of the widgets.  An edit  *)
(* changes the value of its widget and runs no handler.                    *)

\* Variant of SetAll: the loop leaves the first checkbox as it is.
SetAll_SkipsFirst(cbs, new) ==
    IF cbs = <<>> THEN <<>>
    ELSE <<Head(cbs)>> \o
         [k \in 1..(Len(cbs) - 1) |-> [cbs[k + 1] EXCEPT !.value = new]]

\* Lines 131-132: every table checkbox takes the new value.
RECURSIVE SetAll(_, _)
SetAll(cbs, new) ==
    IF cbs = <<>> THEN <<>>
    ELSE <<[Head(cbs) EXCEPT !.value = new]>> \o SetAll(Tail(cbs), new)

OnSelectAllChange(new) ==
    /\ checkboxes' = SetAll(checkboxes, new)
    /\ sql_calls' = <<>>
    /\ last_op' = IF new THEN "select_all(True)" ELSE "select_all(False)"
    /\ UNCHANGED <<tables, select_all_cb, catalog_schema_input, dry_run_checkbox, drop_btn_disabled,
                   table_list_box, output, dry_run_edited>>

\* Variant of ToggleCheckbox: the edit of one checkbox reaches all of them.
ToggleCheckbox_SetsAll(i, value) ==
    /\ i \in DOMAIN checkboxes
    /\ value # checkboxes[i].value
    /\ checkboxes' = SetAll(checkboxes, value)
    /\ sql_calls' = <<>>
    /\ last_op' = "edit"
    /\ UNCHANGED <<tables, select_all_cb, catalog_schema_input, dry_run_checkbox,
                   drop_btn_disabled, table_list_box, output, dry_run_edited>>

\* The value of one element of self.checkboxes is set, by the operator's click or
\* by an assignment to cb.value; no handler observes it.  The object can be set
\* whether or not it still is a child of table_list_box.
ToggleCheckbox(i, value) ==
    /\ i \in DOMAIN checkboxes
    /\ value # checkboxes[i].value
    /\ checkboxes' = [checkboxes EXCEPT ![i].value = value]
    /\ sql_calls' = <<>>
    /\ last_op' = "edit"
    /\ UNCHANGED <<tables, select_all_cb, catalog_schema_input, dry_run_checkbox,
                   drop_btn_disabled, table_list_box, output, dry_run_edited>>

\* The operator types a value into the Catalog.Schema text box.
EditInput(value) ==
    /\ value # catalog_schema_input
    /\ catalog_schema_input' = value
    /\ sql_calls' = <<>>
    /\ last_op' = "edit"
    /\ UNCHANGED <<tables, checkboxes, select_all_cb, dry_run_checkbox, drop_btn_disabled,
                   table_list_box, output, dry_run_edited>>

\* The operator ticks or unticks the Dry Run checkbox.
SetDryRun(value) ==
    /\ value # dry_run_checkbox
    /\ dry_run_checkbox' = value
    /\ dry_run_edited' = TRUE
    /\ sql_calls' = <<>>
    /\ last_op' = "edit"
    /\ UNCHANGED <<tables, checkboxes, select_all_cb, catalog_schema_input,
                   drop_btn_disabled, table_list_box, output>>

----------------------------------------------------------------------------
(* on_drop_click *)

InconsistentLine == <<"Error: UI state inconsistent. Please reload tables.">>
NoSelectionLine == <<"No tables selected.">>
DryRunHeader(n) ==
    << <<"--- DRY RUN MODE ---">>,
       <<"The following ">> \o IntToStr(n) \o <<" tables would be DROPPED:">> >>
ExecuteHeader == << <<"--- EXECUTING DROP ---">> >>
DoneLine == <<"Done.">>

\* Variant of StateConsistent: the handler without its consistency check.
StateConsistent_Unchecked(cbs, tbls) == TRUE

\* Line 139: the consistency check of the handler.
StateConsistent(cbs, tbls) == Len(cbs) = Len(tbls)

\* Variant of SelectedTables: the filter on cb.value left out.
RECURSIVE SelectedTables_IgnoresFlags(_, _)
SelectedTables_IgnoresFlags(cbs, tbls) ==
    IF tbls = <<>> THEN <<>>
    ELSE <<Head(tbls).name>> \o SelectedTables_IgnoresFlags(cbs, Tail(tbls))

\* Lines 144-148: the names of the tables whose checkbox, at the same position, is checked.
RECURSIVE SelectedFrom(_, _, _)
SelectedFrom(cbs, tbls, i) ==
    IF i > Len(cbs) \/ i > Len(tbls) THEN <<>>
    ELSE (IF cbs[i].value THEN <<tbls[i].name>> ELSE <<>>) \o SelectedFrom(cbs, tbls, i + 1)

SelectedTables(cbs, tbls) == SelectedFrom(cbs, tbls, 1)

\* Line 165.
FullTableName(catalog_schema, table) == catalog_schema \o <<".">> \o table

\* Line 170: the statement sent to the executor.
DropStatement(full_table_name) == <<"DROP TABLE IF EXISTS ">> \o full_table_name

\* Line 167.
DryRunLine(full_table_name) == <<"[Dry Run] ">> \o DropStatement(full_table_name) \o <<";">>
\* Line 171.
DroppedLine(full_table_name) == <<"Dropped: ">> \o full_table_name
\* Line 173.
FailedLine(full_table_name, detail) ==
    <<"Failed to drop ">> \o full_table_name \o <<": ">> \o detail

\* Variant of DropItem: the statement is sent in dry-run mode too.
DropItem_DryRunSends(catalog_schema, table, is_dry_run, outcome) ==
    LET full_table_name == FullTableName(catalog_schema, table)
    IN  IF is_dry_run
        THEN [printed |-> <<DryRunLine(full_table_name)>>,
              calls |-> <<Call(DropStatement(full_table_name), Returns(<<>>))>>]
        ELSE [printed |-> IF outcome.raises
                          THEN <<FailedLine(full_table_name, outcome.detail)>>
                          ELSE <<DroppedLine(full_table_name)>>,
              calls |-> <<Call(DropStatement(full_table_name), outcome)>>]

\* Lines 165-173: one pass of the loop body, when the executor answers with `outcome`.
DropItem(catalog_schema, table, is_dry_run, outcome) ==
    LET full_table_name == FullTableName(catalog_schema, table)
    IN  IF is_dry_run
        THEN [printed |-> <<DryRunLine(full_table_name)>>, calls |-> <<>>]
        ELSE [printed |-> IF outcome.raises
                          THEN <<FailedLine(full_table_name, outcome.detail)>>
                          ELSE <<DroppedLine(full_table_name)>>,
              calls |-> <<Call(DropStatement(full_table_name), outcome)>>]

\* Variant of DropLoop: the loop ends at the first statement the executor fails.
RECURSIVE DropLoop_StopsAtFailure(_, _, _, _, _)
DropLoop_StopsAtFailure(catalog_schema, selected_tables, is_dry_run, outcomes, i) ==
    IF i > Len(selected_tables) THEN [printed |-> <<>>, calls |-> <<>>]
    ELSE LET item == DropItem(catalog_schema, selected_tables[i], is_dry_run, outcomes[i])
             rest == IF ~is_dry_run /\ outcomes[i].raises
                     THEN [printed |-> <<>>, calls |-> <<>>]
                     ELSE DropLoop_StopsAtFailure(catalog_schema, selected_tables,
                                                  is_dry_run, outcomes, i + 1)
         IN  [printed |-> item.printed \o rest.printed, calls |-> item.calls \o rest.calls]

\* Lines 164-173: the loop over selected_tables from position i on; outcomes[i] is
\* what the executor does with the i-th statement.
RECURSIVE DropLoop(_, _, _, _, _)
DropLoop(catalog_schema, selected_tables, is_dry_run, outcomes, i) ==
    IF i > Len(selected_tables) THEN [printed |-> <<>>, calls |-> <<>>]
    ELSE LET item == DropItem(catalog_schema, selected_tables[i], is_dry_run, outcomes[i])
             rest == DropLoop(catalog_schema, selected_tables, is_dry_run, outcomes, i + 1)
         IN  [printed |-> item.printed \o rest.printed, calls |-> item.calls \o rest.calls]

\* Variant of DropReport: the early return on an empty selection left out.
DropReport_NoEmptyReturn(catalog_schema, selected_tables, is_dry_run, outcomes) ==
    LET loop == DropLoop(catalog_schema, selected_tables, is_dry_run, outcomes, 1)
    IN  [printed |-> (IF is_dry_run THEN DryRunHeader(Len(selected_tables))
                      ELSE ExecuteHeader) \o loop.printed \o <<DoneLine>>,
         calls |-> loop.calls]

\* Variant of DropReport: the closing line is printed with every pass of the loop
\* that succeeds and not after the loop.
DropReport_DoneInsideLoop(catalog_schema, selected_tables, is_dry_run, outcomes) ==
    IF selected_tables = <<>>
    THEN [printed |-> <<NoSelectionLine>>, calls |-> <<>>]
    ELSE LET loop == DropLoop(catalog_schema, selected_tables, is_dry_run, outcomes, 1)
             closing == IF \E i \in DOMAIN loop.calls : loop.calls[i].raises
                        THEN <<>> ELSE <<DoneLine>>
         IN  [printed |-> (IF is_dry_run THEN DryRunHeader(Len(selected_tables))
                           ELSE ExecuteHeader) \o loop.printed \o closing,
              calls |-> loop.calls]

\* Lines 150-175: what the handler prints and sends once the state passed the check.
DropReport(catalog_schema, selected_tables, is_dry_run, outcomes) ==
    IF selected_tables = <<>>
    THEN [printed |-> <<NoSelectionLine>>, calls |-> <<>>]
    ELSE LET loop == DropLoop(catalog_schema, selected_tables, is_dry_run, outcomes, 1)
         IN  [printed |-> (IF is_dry_run THEN DryRunHeader(Len(selected_tables))
                           ELSE ExecuteHeader) \o loop.printed \o <<DoneLine>>,
              calls |-> loop.calls]

\* Variant of OnDropClick: the handler unticks every checkbox once it is done.
OnDropClick_ClearsSelection ==
    LET catalog_schema == Strip(catalog_schema_input)
    IN  /\ last_op' = "drop"
        /\ checkboxes' = SetAll(checkboxes, FALSE)
        /\ UNCHANGED <<tables, select_all_cb, catalog_schema_input,
                       dry_run_checkbox, drop_btn_disabled, table_list_box, dry_run_edited>>
        /\ IF ~StateConsistent(checkboxes, tables)
           THEN /\ output' = <<InconsistentLine>>
                /\ sql_calls' = <<>>
           ELSE LET selected_tables == SelectedTables(checkboxes, tables)
                    is_dry_run == dry_run_checkbox
                IN  \E outcomes \in [1..(IF is_dry_run THEN 0 ELSE Len(selected_tables))
                                       -> DropOutcomes] :
                      LET report == DropReport(catalog_schema, selected_tables,
                                               is_dry_run, outcomes)
                      IN  /\ output' = report.printed
                          /\ sql_calls' = report.calls

\* Lines 134-175.
OnDropClick ==
    LET catalog_schema == Strip(catalog_schema_input)
    IN  /\ last_op' = "drop"
        /\ UNCHANGED <<tables, checkboxes, select_all_cb, catalog_schema_input,
                       dry_run_checkbox, drop_btn_disabled, table_list_box, dry_run_edited>>
        /\ IF ~StateConsistent(checkboxes, tables)
           THEN /\ output' = <<InconsistentLine>>
                /\ sql_calls' = <<>>
           ELSE LET selected_tables == SelectedTables(checkboxes, tables)
                    is_dry_run == dry_run_checkbox
                IN  \E outcomes \in [1..(IF is_dry_run THEN 0 ELSE Len(selected_tables))
                                       -> DropOutcomes] :
                      LET report == DropReport(catalog_schema, selected_tables,
                                               is_dry_run, outcomes)
                      IN  /\ output' = report.printed
                          /\ sql_calls' = report.calls

----------------------------------------------------------------------------
(* The state machine *)

\* Lines 18-43: the state after construction.
Init ==
    /\ tables = <<>>
    /\ checkboxes = <<>>
    /\ select_all_cb = NoWidget
    /\ catalog_schema_input = <<>>
    /\ dry_run_checkbox = DryRunDefault
    /\ drop_btn_disabled = TRUE
    /\ table_list_box = <<>>
    /\ output = <<>>
    /\ sql_calls = <<>>
    /\ last_op = "init"
    /\ dry_run_edited = FALSE

Next ==
    \/ OnLoadClick(LoadOutcomes)
    \/ \E new \in BOOLEAN : OnSelectAllChange(new)
    \/ \E i \in 1..MaxRows, value \in BOOLEAN : ToggleCheckbox(i, value)
    \/ \E value \in InputValues : EditInput(value)
    \/ \E value \in BOOLEAN : SetDryRun(value)
    \/ OnDropClick

Spec == Init /\ [][Next]_vars

\* The same machine over the wider set of input values, the executor handing back
\* at most one row.
NextNamespaces ==
    \/ OnLoadClick(NamespaceLoadOutcomes)
    \/ \E new \in BOOLEAN : OnSelectAllChange(new)
    \/ \E i \in 1..MaxRows, value \in BOOLEAN : ToggleCheckbox(i, value)
    \/ \E value \in NamespaceInputValues : EditInput(value)
    \/ \E value \in BOOLEAN : SetDryRun(value)
    \/ OnDropClick

SpecNamespaces == Init /\ [][NextNamespaces]_vars

----------------------------------------------------------------------------
(* Vocabulary of the properties *)

\* The namespace a handler works with: the text of the input box, stripped.
Namespace == Strip(catalog_schema_input)

\* The positions of the inventory whose flag is set.
SelectedPositions == { i \in DOMAIN tables \cap DOMAIN checkboxes : checkboxes[i].value }

NumSelected == Cardinality(SelectedPositions)

\* The j-th selected position, in inventory order.
NthSelected(j) ==
    CHOOSE i \in SelectedPositions : Cardinality({ m \in SelectedPositions : m <= i }) = j

\* The statement that drops the j-th selected table of the current namespace.
NthDropText(j) ==
    <<"DROP TABLE IF EXISTS ">> \o Namespace \o <<".">> \o tables[NthSelected(j)].name

\* The qualified name of the j-th selected table.
NthFullName(j) == Namespace \o <<".">> \o tables[NthSelected(j)].name

IsDropStatement(statement) == statement # <<>> /\ Head(statement) = "DROP TABLE IF EXISTS "

\* The output lines that carry the text of a DROP statement.
CarriesDropText(line) == \E k \in DOMAIN line : line[k] = "DROP TABLE IF EXISTS "
PreviewEntries == SelectSeq(output, CarriesDropText)

\* The output lines that report the outcome of one executed DROP.
IsOutcomeLine(line) == Head(line) \in {"Dropped: ", "Failed to drop "}
OutcomeEntries == SelectSeq(output, IsOutcomeLine)

\* The output reports an engine-level error.
IsErrorLine(line) == Head(line) \in {"Error: Expected ", "Error listing tables: ",
                                     "Error: UI state inconsistent. Please reload tables."}
ReportsError == \E k \in DOMAIN output : IsErrorLine(output[k])

PreviewDrop == last_op = "drop" /\ dry_run_checkbox
ExecuteDrop == last_op = "drop" /\ ~dry_run_checkbox

----------------------------------------------------------------------------
(* C1 *)

\* C1: after a drop in preview (dry run) mode with a non-empty selection, no
\* statement was sent to the executor, and the output carries exactly one entry
\* per selected table, in selection order, the j-th being the text
\* DROP TABLE IF EXISTS <namespace>.<j-th selected table>.
C1_PreviewPurity ==
    (PreviewDrop /\ SelectedPositions # {}) =>
        /\ sql_calls = <<>>
        /\ Len(PreviewEntries) = NumSelected
        /\ \A j \in 1..NumSelected :
              PreviewEntries[j] = <<"[Dry Run] ">> \o NthDropText(j) \o <<";">>

\* Two tables, listed against their creation order, both selected and previewed.
C1_Witness ==
    /\ PreviewDrop
    /\ NumSelected = 2
    /\ tables[1].name = <<"t", "2">>
    /\ Len(PreviewEntries) = 2

----------------------------------------------------------------------------
(* C2 *)

\* C2: after a drop in execute mode, the statements sent to the executor are
\* exactly DROP TABLE IF EXISTS <namespace>.<name>, once for each table whose
\* flag is set and for no other table, in inventory order; the reported outcomes
\* name the same tables in the same order.
C2_ExecuteOrdering ==
    ExecuteDrop =>
        /\ Len(sql_calls) = NumSelected
        /\ \A j \in 1..NumSelected : sql_calls[j].statement = NthDropText(j)
        /\ Len(OutcomeEntries) = NumSelected
        /\ \A j \in 1..NumSelected :
              SubSeq(OutcomeEntries[j], 2, 1 + Len(NthFullName(j))) = NthFullName(j)

\* An executed drop of the second of two tables, the first left unselected.
C2_Witness ==
    /\ ExecuteDrop
    /\ Len(tables) = 2
    /\ SelectedPositions = {2}
    /\ Len(sql_calls) = 1

----------------------------------------------------------------------------
(* C3 *)

\* C3: after a drop in execute mode with a non-empty selection, whichever
\* statements the executor failed, one statement was sent for every selected
\* table; the j-th outcome is Failed with the executor's detail where the j-th
\* statement failed and Dropped where it succeeded; and the handler ran to its
\* end (the closing line is printed, no engine-level error is reported).
C3_PartialFailure ==
    (ExecuteDrop /\ SelectedPositions # {}) =>
        /\ Len(sql_calls) = NumSelected
        /\ Len(OutcomeEntries) = NumSelected
        /\ \A j \in 1..NumSelected :
              /\ sql_calls[j].statement = NthDropText(j)
              /\ OutcomeEntries[j] =
                    IF sql_calls[j].raises
                    THEN <<"Failed to drop ">> \o NthFullName(j) \o <<": ">>
                            \o sql_calls[j].detail
                    ELSE <<"Dropped: ">> \o NthFullName(j)
        /\ output[Len(output)] = <<"Done.">>
        /\ ~ReportsError

\* Two selected tables: the executor fails the first drop and performs the second.
C3_Witness ==
    /\ ExecuteDrop
    /\ NumSelected = 2
    /\ Len(sql_calls) = 2
    /\ sql_calls[1].raises
    /\ ~sql_calls[2].raises

----------------------------------------------------------------------------
(* C4 *)

\* The table name a checkbox was created for: its description up to " (".
CheckboxName(cb) == Split(cb.description, " (")[1]

\* The selection matches the inventory: as many flags as rows, for the same names.
SelectionMatchesInventory ==
    /\ Len(checkboxes) = Len(tables)
    /\ { CheckboxName(checkboxes[i]) : i \in DOMAIN checkboxes }
         = { tables[i].name : i \in DOMAIN tables }

\* C4: a drop attempted while the selection does not match the inventory is
\* refused as inconsistent with no statement sent; so an unrefused drop always
\* ran with a selection that matches the current inventory.
C4_ConsistencyPrecondition ==
    last_op = "drop" =>
        \/ SelectionMatchesInventory
        \/ /\ output = << <<"Error: UI state inconsistent. Please reload tables.">> >>
           /\ sql_calls = <<>>

\* A refused drop in execute mode: a set flag of an earlier inventory, no inventory.
C4_Witness ==
    /\ ExecuteDrop
    /\ ~SelectionMatchesInventory
    /\ \E i \in DOMAIN checkboxes : checkboxes[i].value
    /\ output = <<InconsistentLine>>

----------------------------------------------------------------------------
(* C5 *)

\* The most recent action was a load that failed: no namespace was given, the
\* namespace was rejected, or the executor failed the inventory query.
LoadFailed ==
    /\ last_op = "load"
    /\ \/ output = << <<"Please enter a valid catalog.schema">> >>
       \/ \E k \in DOMAIN output :
            Head(output[k]) \in {"Error: Expected ", "Error listing tables: "}

\* C5: a load that fails leaves the inventory and the selection as they were
\* before it.
C5_FailedLoadAtomic ==
    [][LoadFailed' => (tables' = tables /\ checkboxes' = checkboxes)]_vars

----------------------------------------------------------------------------
(* C6 *)

\* C6: as long as the operator has not set the dry-run checkbox, the mode is
\* preview, as it is at construction (no handler changes it), and no DROP
\* statement is sent to the executor.
C6_SafeByDefault ==
    ~dry_run_edited =>
        /\ dry_run_checkbox = TRUE
        /\ \A k \in DOMAIN sql_calls : ~IsDropStatement(sql_calls[k].statement)

\* A drop of a selected table by an operator who never touched the dry-run checkbox.
C6_Witness ==
    /\ ~dry_run_edited
    /\ last_op = "drop"
    /\ SelectedPositions # {}
    /\ Len(PreviewEntries) = NumSelected

----------------------------------------------------------------------------
(* C7 *)

\* C7: a drop with as many flags as rows and no flag set, in either mode,
\* sends no statement, reports no per-item outcome, and prints the one line
\* "No tables selected.": neither an error nor the closing line of a batch.
C7_EmptySelectionNoOp ==
    (last_op = "drop" /\ Len(checkboxes) = Len(tables) /\ SelectedPositions = {}) =>
        /\ sql_calls = <<>>
        /\ output = << <<"No tables selected.">> >>
        /\ PreviewEntries = <<>>
        /\ OutcomeEntries = <<>>
        /\ ~ReportsError
        /\ \A k \in DOMAIN output : output[k] # <<"Done.">>

\* A drop in execute mode over a loaded inventory with nothing selected.
C7_Witness ==
    /\ ExecuteDrop
    /\ Len(tables) = 2
    /\ Len(checkboxes) = 2
    /\ SelectedPositions = {}
    /\ output = <<NoSelectionLine>>

----------------------------------------------------------------------------
(* C8 *)

\* The most recent action was a load whose inventory query the executor answered.
LoadSucceeded ==
    /\ last_op = "load"
    /\ Len(sql_calls) = 1
    /\ ~sql_calls[1].raises

\* C8: after a load that succeeded the selection holds one flag per row of the
\* fetched inventory, made for that row, and every flag is unset.
C8_RebuildOnLoad ==
    LoadSucceeded =>
        /\ Len(checkboxes) = Len(tables)
        /\ \A i \in DOMAIN checkboxes :
              /\ ~checkboxes[i].value
              /\ CheckboxName(checkboxes[i]) = tables[i].name

----------------------------------------------------------------------------
(* C9 *)

\* The positions of the dots of a string.
Dots(raw) == { k \in DOMAIN raw : raw[k] = "." }

\* raw has the form catalog.schema with both segments non-empty.
TwoSegments(raw) ==
    /\ Cardinality(Dots(raw)) = 1
    /\ 1 \notin Dots(raw)
    /\ Len(raw) \notin Dots(raw)

\* The load refused the namespace as malformed.
FormatRejected ==
    \/ output = << <<"Please enter a valid catalog.schema">> >>
    \/ \E k \in DOMAIN output : Head(output[k]) = "Error: Expected "

\* C9: a load of a namespace that is not two non-empty segments around one dot
\* is refused as malformed and sends no statement; a load of catalog.schema is
\* not refused and queries that catalog for that schema.
C9_NamespaceValidation ==
    last_op = "load" =>
        IF TwoSegments(Namespace)
        THEN LET dot == CHOOSE k \in Dots(Namespace) : TRUE
             IN  /\ ~FormatRejected
                 /\ Len(sql_calls) = 1
                 /\ sql_calls[1].statement =
                       InventoryQuery(SubSeq(Namespace, 1, dot - 1),
                                      SubSeq(Namespace, dot + 1, Len(Namespace)))
        ELSE /\ FormatRejected
             /\ sql_calls = <<>>

----------------------------------------------------------------------------
(* C10 *)

\* The most recent action was a load whose fetch failed.
FetchFailed ==
    /\ last_op = "load"
    /\ \E k \in DOMAIN output :
          Head(output[k]) \in {"Error: Expected ", "Error listing tables: "}

\* C10: a fetch that succeeds with zero rows gives the empty inventory and
\* reports no error, and the result a failed fetch hands to on_load_click
\* (kept in self.tables) is not that empty inventory.
C10_EmptyVersusFailed ==
    /\ (LoadSucceeded /\ tables = <<>>) => ~ReportsError
    /\ FetchFailed => tables # <<>>

----------------------------------------------------------------------------
(* C11 *)

IsDoneLine(line) == line = <<"Done.">>

\* C11: after a drop in execute mode with a non-empty selection, whichever
\* statements succeeded or failed, the output is the header, then one outcome
\* line for every selected table, then the closing line Done.: the closing line
\* is printed exactly once and directly after the last outcome.
C11_BatchCompletion ==
    (ExecuteDrop /\ SelectedPositions # {}) =>
        /\ Len(output) = NumSelected + 2
        /\ \A k \in 2..(NumSelected + 1) : IsOutcomeLine(output[k])
        /\ Len(SelectSeq(output, IsDoneLine)) = 1
        /\ IsDoneLine(output[NumSelected + 2])

\* Two selected tables whose drops both fail: the batch still closes with Done.
C11_Witness ==
    /\ ExecuteDrop
    /\ NumSelected = 2
    /\ Len(sql_calls) = 2
    /\ sql_calls[1].raises /\ sql_calls[2].raises
    /\ IsDoneLine(output[4])

----------------------------------------------------------------------------
(* C12 *)

\* The step is a call of on_select_all_change, with change['new'] = SelectAllValue.
SelectAllStep == last_op \in {"select_all(True)", "select_all(False)"}
SelectAllValue == last_op = "select_all(True)"

\* C12: a call of on_select_all_change with the value v gives every flag the
\* value v and changes nothing else: the flags stay the same in number and stand
\* for the same tables, the inventory and every other widget are as before.
\* After it the selected tables are the whole inventory when v is true, and none
\* when v is false.
C12_SelectAll ==
    [][SelectAllStep' =>
        /\ Len(checkboxes') = Len(checkboxes)
        /\ \A i \in DOMAIN checkboxes :
              /\ checkboxes'[i].value = SelectAllValue'
              /\ checkboxes'[i].description = checkboxes[i].description
        /\ UNCHANGED <<tables, select_all_cb, catalog_schema_input, dry_run_checkbox,
                       drop_btn_disabled, table_list_box, output>>
        /\ SelectedPositions' = IF SelectAllValue' THEN DOMAIN tables' ELSE {}]_vars

\* Select-all with the value true over an inventory of two tables.
C12_Witness ==
    /\ SelectAllStep /\ SelectAllValue
    /\ Len(tables) = 2
    /\ SelectedPositions = {1, 2}

----------------------------------------------------------------------------
(* C13 *)

\* The step is the operator's edit of a table checkbox.
ToggleStep == last_op' = "edit" /\ checkboxes' # checkboxes

\* The step sets the flag at position i, and only that one.
TogglesOnly(i) ==
    /\ checkboxes' = [checkboxes EXCEPT ![i].value = ~checkboxes[i].value]
    /\ tables' = tables

\* C13: a toggle works on a flag of the current mapping, self.checkboxes: it
\* sets exactly that flag to the value given, and every other flag, the
\* inventory and the rest of the state stay as they are; the mapping keeps its
\* length and the tables its flags stand for.
C13_ToggleFrame ==
    [][ToggleStep =>
         /\ \E i \in DOMAIN checkboxes : TogglesOnly(i)
         /\ Len(checkboxes') = Len(checkboxes)
         /\ \A i \in DOMAIN checkboxes :
               checkboxes'[i].description = checkboxes[i].description
         /\ UNCHANGED <<catalog_schema_input, dry_run_checkbox, drop_btn_disabled,
                        table_list_box, output>>]_vars

\* The flag of the second of two tables was ticked, the first left as it was.
C13_Witness ==
    /\ last_op = "edit"
    /\ Len(tables) = 2
    /\ Len(checkboxes) = 2
    /\ ~checkboxes[1].value /\ checkboxes[2].value
    /\ CheckboxName(checkboxes[2]) = tables[2].name

----------------------------------------------------------------------------
(* C14 *)

\* The last handler was a load that fetched: it announced the namespace and
\* reported no error.
FetchSucceeded ==
    /\ last_op = "load"
    /\ output # <<>>
    /\ Head(output[1]) = "Loading tables from "
    /\ ~ReportsError

IsReadStatement(statement) ==
    /\ statement # <<>>
    /\ Head(statement) = "\n                SELECT table_name, created\n                FROM "
    /\ \A k \in DOMAIN statement : statement[k] # "DROP TABLE IF EXISTS "

\* C14: a load that fetched sent exactly one statement to the executor, a
\* SELECT, and the inventory is then exactly the rows the executor handed back:
\* one record (name, created) per row, in the order of the rows, and nothing
\* else, whatever the inventory was before.
C14_FetchResult ==
    FetchSucceeded =>
        /\ Len(sql_calls) = 1
        /\ IsReadStatement(sql_calls[1].statement)
        /\ Len(tables) = Len(sql_calls[1].rows)
        /\ \A i \in DOMAIN tables :
              /\ tables[i].name = sql_calls[1].rows[i].table_name
              /\ tables[i].created = sql_calls[1].rows[i].created

\* The executor hands back t2 before t1, against their order of creation.
C14_Witness ==
    /\ FetchSucceeded
    /\ Len(sql_calls) = 1
    /\ Len(sql_calls[1].rows) = 2
    /\ sql_calls[1].rows[1].table_name = <<"t", "2">>
    /\ tables[1].name = <<"t", "2">>

----------------------------------------------------------------------------
(* C15 *)

\* The last handler was a load that sent its inventory statement.
SentInventoryQuery == last_op = "load" /\ Len(sql_calls) = 1
InventoryStatement == sql_calls[1].statement

\* The catalog and schema segments the load was given.
CatalogSegment == Split(Namespace, ".")[1]
SchemaSegment == Split(Namespace, ".")[2]

\* The quote that opens the literal of table_schema follows the WHERE piece; the
\* quote that closes it is the one the statement's template puts before ORDER BY.
OpeningQuote ==
    1 + CHOOSE k \in DOMAIN InventoryStatement :
            InventoryStatement[k] = "\n                WHERE table_schema = "
ClosingQuote == Len(InventoryStatement) - 2

\* Where a string literal whose text starts at position k of the statement ends,
\* as the SQL parser reads it: a backslash takes the next character with it, the
\* first quote that is not taken ends the literal (0: the literal does not end).
RECURSIVE LiteralEnd(_, _)
LiteralEnd(statement, k) ==
    IF k > Len(statement) THEN 0
    ELSE IF statement[k] = "\\" THEN LiteralEnd(statement, k + 2)
    ELSE IF statement[k] = "'" THEN k
    ELSE LiteralEnd(statement, k + 1)

\* C15: in the inventory statement of a load, every single quote of the schema
\* segment is preceded by a backslash and the literal the schema is embedded in
\* ends at the closing quote of the statement, not inside the schema text; the
\* statement reads FROM <catalog>.information_schema.tables with the catalog
\* segment as given, and has ORDER BY created ASC after the literal.
C15_SchemaEscaping ==
    SentInventoryQuery =>
        /\ \A k \in (OpeningQuote + 1)..(ClosingQuote - 1) :
              InventoryStatement[k] = "'" =>
                  k > OpeningQuote + 1 /\ InventoryStatement[k - 1] = "\\"
        /\ LiteralEnd(InventoryStatement, OpeningQuote + 1) = ClosingQuote
        /\ SubSeq(InventoryStatement, 2, 1 + Len(CatalogSegment)) = CatalogSegment
        /\ InventoryStatement[2 + Len(CatalogSegment)] = ".information_schema.tables"
        /\ InventoryStatement[ClosingQuote] = "'"
        /\ InventoryStatement[ClosingQuote + 1] = "\n                ORDER BY created ASC"

----------------------------------------------------------------------------
(* C16 *)

\* The output is still the report of a load: its first line names the namespace
\* the inventory was fetched from.
ShowsLoadReport == output # <<>> /\ Head(output[1]) = "Loading tables from "
LoadedNamespace == SubSeq(output[1], 2, Len(output[1]) - 1)

\* The statement drops a table qualified with the namespace.
DropsIn(statement, namespace) ==
    /\ Len(statement) > 2 + Len(namespace)
    /\ SubSeq(statement, 2, 1 + Len(namespace)) = namespace
    /\ statement[2 + Len(namespace)] = "."
    /\ \E i \in DOMAIN tables :
          SubSeq(statement, 3 + Len(namespace), Len(statement)) = tables[i].name

\* C16: a drop that follows a load, whatever the operator edited in between,
\* sends only DROP statements whose table is qualified with the namespace the
\* inventory was loaded from.
C16_NamespaceBinding ==
    [][(last_op' = "drop" /\ ShowsLoadReport) =>
         \A k \in DOMAIN sql_calls' :
             IsDropStatement(sql_calls'[k].statement) =>
                 DropsIn(sql_calls'[k].statement, LoadedNamespace)]_vars

----------------------------------------------------------------------------
(* C17 *)

\* C17: in every reachable state with as many flags as inventory rows, the
\* i-th flag is the one made for the i-th row: its checkbox carries the name and
\* the creation time of that row, so the pairing by position of on_drop_click
\* reads each table's own flag.
C17_PositionalAlignment ==
    Len(checkboxes) = Len(tables) =>
        \A i \in DOMAIN tables :
            /\ CheckboxName(checkboxes[i]) = tables[i].name
            /\ checkboxes[i].description =
                   tables[i].name \o <<" (">> \o tables[i].created \o <<")">>

\* Two tables listed against their order of creation, the flag of the first set
\* and acted on by a drop.
C17_Witness ==
    /\ ExecuteDrop
    /\ Len(checkboxes) = 2 /\ Len(tables) = 2
    /\ tables[1].name = <<"t", "2">>
    /\ checkboxes[1].value /\ ~checkboxes[2].value
    /\ Len(sql_calls) = 1

----------------------------------------------------------------------------
(* C18 *)

\* The statements of a record of executor calls, in the order they were sent.
Statements(calls) == [k \in DOMAIN calls |-> calls[k].statement]

\* C18: a drop, in either mode and whatever the executor does with each
\* statement, leaves the inventory, every flag and the dry-run flag as they
\* were; and an execute-mode drop that directly follows an execute-mode drop
\* sends the same DROP statements in the same order.
C18_DropLeavesState ==
    [][last_op' = "drop" =>
         /\ tables' = tables
         /\ checkboxes' = checkboxes
         /\ dry_run_checkbox' = dry_run_checkbox
         /\ (ExecuteDrop => Statements(sql_calls') = Statements(sql_calls))]_vars

\* An executed drop of the first of two tables, which the executor failed: the
\* flag is still set and the inventory still holds both tables.
C18_Witness ==
    /\ ExecuteDrop
    /\ Len(tables) = 2
    /\ SelectedPositions = {1}
    /\ Len(sql_calls) = 1
    /\ sql_calls[1].raises

----------------------------------------------------------------------------
(* C19 *)

DropEnabled == ~drop_btn_disabled

\* C19: the drop button is disabled when the object is constructed; after a
\* load it is enabled exactly when the load fetched a non-empty inventory; and
\* in every reachable state where it is enabled the inventory is non-empty and
\* there is one flag per inventory row.
C19_DropGating ==
    /\ last_op = "init" => ~DropEnabled
    /\ last_op = "load" => (DropEnabled <=> (FetchSucceeded /\ tables # <<>>))
    /\ DropEnabled => (tables # <<>> /\ Len(checkboxes) = Len(tables))

\* A load that fails after one that enabled the button: the button is disabled
\* again, over the flags the earlier load left.
C19_Witness ==
    /\ last_op = "load"
    /\ ~FetchSucceeded
    /\ ~DropEnabled
    /\ Len(checkboxes) = 2
    /\ tables = <<>>

====
